---- MODULE Spec2Model ----
(***************************************************************************)
(* OKAIgpt persistence layer: the chat session / chat message tables with  *)
(* their foreign key, the handlers that read and write them, the message   *)
(* listing query, and the video generation handlers.                       *)
(*                                                                         *)
(* Every `await db....execute()` of a handler is one autocommit statement  *)
(* of the store, so a handler with several statements is modelled as one   *)
(* action per statement; requests are served concurrently (one slot of     *)
(* Procs per in-flight request).                                           *)
(***************************************************************************)
EXTENDS Integers, Sequences, FiniteSets, TLC

\* ---------------------------------------------------------------- bounds
MaxTime == 2        \* the clock stops advancing here (in store clock ticks)
MaxMsgs == 2        \* values the chat_messages id sequence may hand out
MaxLimit == 2       \* largest limit requested
MaxOffset == 2      \* largest offset requested
MaxVideos == 2      \* generateVideo calls recorded
TicksPerMs == 2     \* store clock ticks (microseconds) per handler clock tick (ms)
MaxGens == 2        \* generations started in the video view
MaxSends == 2       \* messages sent from the chat view
MaxArchive == 1002  \* messages of the long session

\* ---------------------------------------------------------------- inputs
Procs == {1, 2}
None == "null"
SessionIds == {"s1", "s2"}
Roles == {"user", "assistant"}
ContentTypes == {"text", "image", "pdf"}
InputContents == {<<"hello">>}
InputContentTypes == {"text"}
InputRoles == {"user"}
InputTitles == {None}
InputImages == {None, "img"}
InputPdfs == {None}
InputPrompts == {"sunset", "cat"}
InputImageUrls == {None, "url"}
\* An optional number of a request: <<>> when absent, <<n>> when given.
Absent == <<>>
Limits == {Absent} \cup {<<n>> : n \in 0..MaxLimit}
Offsets == {Absent} \cup {<<n>> : n \in 0..MaxOffset}

VARIABLES
    now,        \* physical time, in store clock ticks
    chatSessionsTable,      \* chat_sessions: id -> row
    chatMessagesTable,      \* chat_messages: set of rows
    nextMsgId,  \* the serial sequence behind chat_messages.id
    pc,         \* per request slot: the statement the handler is about to run
    loc,        \* per request slot: the handler's locals
    res,        \* per request slot: the outcome being returned to the caller
    generatedVideosTable,     \* generated_videos: id -> row
    generated,  \* records returned by generateVideo so far
    vres,       \* the last getVideoStatus request and its outcome
    listed,     \* the getChatMessages request being answered and its response
    documentAnalysisTable,  \* document_analysis: set of rows
    generatedImagesTable,   \* generated_images: set of rows
    quizTable,              \* quiz: set of rows
    webSearchTable,         \* web_search: set of rows
    activities, \* the last getRecentActivities request and its response
    mounted,    \* VideoGeneratorView: the component is mounted
    isGenerating,           \* VideoGeneratorView: the isGenerating state
    view_status,            \* VideoGeneratorView: the status state
    pollIntervalRef,        \* VideoGeneratorView: pollIntervalRef.current
    intervals,  \* the window's active interval timers
    inflight,   \* requests and responses between the view and the server
    started,    \* generateVideo requests the view has sent so far
    cancelled,  \* history: the generations the user has cancelled
    observed,   \* history: the videos whose terminal status the view has applied
    currentSessionId,       \* ChatView: the currentSessionId state
    messages,   \* ChatView: the messages prop (ids of the messages shown)
    pendingReplies,         \* ChatView: the setTimeout callbacks not yet run
    sent,       \* ChatView: sendMessage calls that created a user message
    archive     \* the long session: its message ids in created_at order

activityVars == <<documentAnalysisTable, generatedImagesTable, quizTable,
                  webSearchTable, activities>>
clientVars == <<mounted, isGenerating, view_status, pollIntervalRef, intervals,
                inflight, started, cancelled, observed>>
chatViewVars == <<currentSessionId, messages, pendingReplies, sent>>
viewVars == <<clientVars, chatViewVars>>
extraVars == <<activityVars, viewVars, archive>>
vars == <<now, chatSessionsTable, chatMessagesTable, nextMsgId, pc, loc, res,
          generatedVideosTable, generated,
          vres, listed, extraVars>>
chatVars == <<chatSessionsTable, chatMessagesTable, nextMsgId, pc, loc, res>>
videoVars == <<generatedVideosTable, generated, vres>>
otherVars == <<generatedVideosTable, generated, vres, listed, extraVars>>

\* ---------------------------------------------------------------- clocks
\* timestamp(...).defaultNow(): the store's now(), microsecond resolution.
DbNow == now

\* new Date(): the handler's clock, millisecond resolution.
JsNow == (now \div TicksPerMs) * TicksPerMs

\* Date.now(): milliseconds as a number.
DateNow == now \div TicksPerMs

\* ---------------------------------------------------------------- tables
NoLoc == [session_id |-> None, role |-> None, content |-> <<>>,
          content_type |-> None, metadata |-> None, ai |-> <<>>, msg |-> 0]
NoRes == [op |-> "none", status |-> "none", session_id |-> None, msg |-> 0]

NoList == [session_id |-> None, limit |-> <<>>, offset |-> <<>>,
           status |-> "none", rows |-> <<>>]

NoVres == [id |-> 0, status |-> "none", video |-> {}]

NoActivities == [limit |-> <<>>, status |-> "none", rows |-> <<>>]

Outcome(op, status, sid, msg) ==
    [op |-> op, status |-> status, session_id |-> sid, msg |-> msg]

\* Mutant: chat_messages.session_id declared without references(...).
NoForeignKey(sid) == TRUE

\* The foreign key chat_messages.session_id -> chat_sessions.id.
ForeignKeyOk(sid) == sid \in DOMAIN chatSessionsTable

\* Mutant: the reference declared without onDelete: 'cascade'.
CascadeNothing(msgs, gone) == msgs

\* ON DELETE CASCADE: the rows that survive deleting the sessions in `gone`.
CascadeDelete(msgs, gone) == {m \in msgs : m.session_id \notin gone}

\* The row an INSERT INTO chat_messages builds (id from the sequence,
\* created_at from defaultNow()).
MessageRow(id, sid, role, content, ctype, metadata) ==
    [id |-> id, session_id |-> sid, role |-> role, content |-> content,
     content_type |-> ctype, metadata |-> metadata, created_at |-> DbNow]

\* The row an INSERT INTO chat_sessions builds.
SessionRow(title, genz, codeonly, lang) ==
    [title |-> title, gen_z_mode |-> genz, copy_code_only_mode |-> codeonly,
     target_language |-> lang, created_at |-> DbNow, updated_at |-> DbNow]

Init ==
    /\ now = 0
    /\ chatSessionsTable = <<>>
    /\ chatMessagesTable = {}
    /\ nextMsgId = 1
    /\ pc = [p \in Procs |-> "idle"]
    /\ loc = [p \in Procs |-> NoLoc]
    /\ res = [p \in Procs |-> NoRes]
    /\ generatedVideosTable = <<>>
    /\ generated = <<>>
    /\ vres = NoVres
    /\ listed = NoList
    /\ documentAnalysisTable = {}
    /\ generatedImagesTable = {}
    /\ quizTable = {}
    /\ webSearchTable = {}
    /\ activities = NoActivities
    /\ mounted = TRUE
    /\ isGenerating = FALSE
    /\ view_status = "pending"
    /\ pollIntervalRef = 0
    /\ intervals = {}
    /\ inflight = {}
    /\ started = 0
    /\ cancelled = {}
    /\ observed = {}
    /\ currentSessionId = None
    /\ messages = <<>>
    /\ pendingReplies = {}
    /\ sent = 0
    /\ archive = <<>>

\* Time passes.
Tick ==
    /\ now < MaxTime
    /\ now' = now + 1
    /\ UNCHANGED <<chatVars, videoVars, listed, extraVars>>

\* The handler returns or throws: its outcome is on its way to the caller.
Finish(p, outcome) ==
    /\ pc' = [pc EXCEPT ![p] = "return"]
    /\ loc' = [loc EXCEPT ![p] = NoLoc]
    /\ res' = [res EXCEPT ![p] = outcome]

\* The outcome has been delivered to the caller; the slot is free again.
Return(p) ==
    /\ pc[p] = "return"
    /\ pc' = [pc EXCEPT ![p] = "idle"]
    /\ res' = [res EXCEPT ![p] = NoRes]
    /\ UNCHANGED <<now, chatSessionsTable, chatMessagesTable, nextMsgId, loc, otherVars>>

\* ------------------------------------------------------ createChatSession
\* Mutant: the insert written as an upsert (onConflictDoUpdate), so that an
\* existing id is overwritten.
createChatSession_upsert(p, id, title) ==
    /\ pc[p] = "idle"
    /\ \E sessionId \in (IF id = None THEN SessionIds \ DOMAIN chatSessionsTable ELSE {id}) :
        /\ chatSessionsTable' = [s \in DOMAIN chatSessionsTable \cup {sessionId} |->
                               IF s = sessionId
                               THEN SessionRow(title, FALSE, FALSE, None)
                               ELSE chatSessionsTable[s]]
        /\ Finish(p, Outcome("createChatSession", "ok", sessionId, 0))
    /\ UNCHANGED <<now, chatMessagesTable, nextMsgId, otherVars>>

\* input.id || randomUUID(): an omitted id becomes a fresh one.
createChatSession(p, id, title) ==
    /\ pc[p] = "idle"
    /\ \E sessionId \in (IF id = None THEN SessionIds \ DOMAIN chatSessionsTable ELSE {id}) :
        IF sessionId \in DOMAIN chatSessionsTable
        THEN /\ Finish(p, Outcome("createChatSession", "DuplicateKey", sessionId, 0))
             /\ UNCHANGED chatSessionsTable
        ELSE /\ chatSessionsTable' = [s \in DOMAIN chatSessionsTable \cup {sessionId} |->
                               IF s = sessionId
                               THEN SessionRow(title, FALSE, FALSE, None)
                               ELSE chatSessionsTable[s]]
             /\ Finish(p, Outcome("createChatSession", "ok", sessionId, 0))
    /\ UNCHANGED <<now, chatMessagesTable, nextMsgId, otherVars>>

\* ------------------------------------------------------ deleteChatSession
\* Mutant: the delete built without its where clause.
deleteChatSession_everySession(p, id) ==
    /\ pc[p] = "idle"
    /\ chatSessionsTable' = <<>>
    /\ chatMessagesTable' = CascadeDelete(chatMessagesTable, DOMAIN chatSessionsTable)
    /\ Finish(p, Outcome("deleteChatSession", "ok", id, 0))
    /\ UNCHANGED <<now, nextMsgId, otherVars>>

\* Mutant: the handler checks that a row was deleted, as the update handlers
\* do, and throws when none was.
deleteChatSession_strict(p, id) ==
    /\ pc[p] = "idle"
    /\ chatSessionsTable' = [s \in DOMAIN chatSessionsTable \ {id} |-> chatSessionsTable[s]]
    /\ chatMessagesTable' = CascadeDelete(chatMessagesTable, {id})
    /\ Finish(p, Outcome("deleteChatSession",
                         IF id \in DOMAIN chatSessionsTable THEN "ok" ELSE "NotFound",
                         id, 0))
    /\ UNCHANGED <<now, nextMsgId, otherVars>>

\* delete from chat_sessions where id = sessionId: a where clause that
\* matches no row deletes nothing and is no error.
deleteChatSession(p, id) ==
    /\ pc[p] = "idle"
    /\ chatSessionsTable' = [s \in DOMAIN chatSessionsTable \ {id} |-> chatSessionsTable[s]]
    /\ chatMessagesTable' = CascadeDelete(chatMessagesTable, {id})
    /\ Finish(p, Outcome("deleteChatSession", "ok", id, 0))
    /\ UNCHANGED <<now, nextMsgId, otherVars>>

\* ------------------------------------------------------- clearChatHistory
\* await db.delete(chatMessagesTable).execute()
clearChatHistory_messages(p, fail) ==
    /\ pc[p] = "idle"
    /\ IF fail
       THEN /\ Finish(p, Outcome("clearChatHistory", "StoreFailure", None, 0))
            /\ UNCHANGED chatMessagesTable
       ELSE /\ chatMessagesTable' = {}
            /\ pc' = [pc EXCEPT ![p] = "clear_sessions"]
            /\ UNCHANGED <<loc, res>>
    /\ UNCHANGED <<now, chatSessionsTable, nextMsgId, otherVars>>

\* Mutant: the handler returns after deleting the messages.
clearChatHistory_messagesOnly(p, fail) ==
    /\ pc[p] = "clear_sessions"
    /\ Finish(p, Outcome("clearChatHistory", IF fail THEN "StoreFailure" ELSE "ok",
                         None, 0))
    /\ UNCHANGED <<now, chatSessionsTable, chatMessagesTable, nextMsgId, otherVars>>

\* await db.delete(chatSessionsTable).execute()
clearChatHistory_sessions(p, fail) ==
    /\ pc[p] = "clear_sessions"
    /\ IF fail
       THEN /\ Finish(p, Outcome("clearChatHistory", "StoreFailure", None, 0))
            /\ UNCHANGED <<chatSessionsTable, chatMessagesTable>>
       ELSE /\ chatSessionsTable' = <<>>
            /\ chatMessagesTable' = CascadeDelete(chatMessagesTable, DOMAIN chatSessionsTable)
            /\ Finish(p, Outcome("clearChatHistory", "ok", None, 0))
    /\ UNCHANGED <<now, nextMsgId, otherVars>>

\* ------------------------------------------------------ createChatMessage
\* Mutant: the handler without its existence check.
createChatMessage_unchecked(p, sid, role, content, ctype, metadata, fail) ==
    /\ pc[p] = "idle"
    /\ pc' = [pc EXCEPT ![p] = "cm_insert"]
    /\ loc' = [loc EXCEPT ![p] =
                 [NoLoc EXCEPT !.session_id = sid, !.role = role,
                               !.content = content, !.content_type = ctype,
                               !.metadata = metadata]]
    /\ UNCHANGED <<now, chatSessionsTable, chatMessagesTable, nextMsgId, res, otherVars>>

\* The existence check: select from chat_sessions where id = input.session_id.
createChatMessage_select(p, sid, role, content, ctype, metadata, fail) ==
    /\ pc[p] = "idle"
    /\ IF fail
       THEN Finish(p, Outcome("createChatMessage", "StoreFailure", sid, 0))
       ELSE IF sid \notin DOMAIN chatSessionsTable
       THEN Finish(p, Outcome("createChatMessage", "SessionNotFound", sid, 0))
       ELSE /\ pc' = [pc EXCEPT ![p] = "cm_insert"]
            /\ loc' = [loc EXCEPT ![p] =
                         [NoLoc EXCEPT !.session_id = sid, !.role = role,
                                       !.content = content, !.content_type = ctype,
                                       !.metadata = metadata]]
            /\ UNCHANGED res
    /\ UNCHANGED <<now, chatSessionsTable, chatMessagesTable, nextMsgId, otherVars>>

\* insert into chat_messages ... returning. The id is drawn from the sequence
\* before the foreign key is checked, so a rejected insert consumes it too.
InsertMessage(p, op, next, fail) ==
    /\ IF fail
       THEN /\ Finish(p, Outcome(op, "StoreFailure", loc[p].session_id, loc[p].msg))
            /\ UNCHANGED <<chatMessagesTable, nextMsgId>>
       ELSE /\ nextMsgId <= MaxMsgs
            /\ nextMsgId' = nextMsgId + 1
            /\ IF ForeignKeyOk(loc[p].session_id)
               THEN /\ chatMessagesTable' = chatMessagesTable \cup
                          {MessageRow(nextMsgId, loc[p].session_id, loc[p].role,
                                      loc[p].content, loc[p].content_type,
                                      loc[p].metadata)}
                    /\ pc' = [pc EXCEPT ![p] = next]
                    /\ loc' = [loc EXCEPT ![p].msg = nextMsgId]
                    /\ UNCHANGED res
               ELSE /\ Finish(p, Outcome(op, "ForeignKeyViolation",
                                         loc[p].session_id, loc[p].msg))
                    /\ UNCHANGED chatMessagesTable
    /\ UNCHANGED <<now, chatSessionsTable, otherVars>>

createChatMessage_insert(p, fail) ==
    /\ pc[p] = "cm_insert"
    /\ InsertMessage(p, "createChatMessage", "cm_touch", fail)

\* update chat_sessions set updated_at = new Date() where id = session_id.
\* A where clause that matches no row updates nothing and is no error.
TouchSession(p, op, fail) ==
    /\ IF fail
       THEN /\ Finish(p, Outcome(op, "StoreFailure", loc[p].session_id, loc[p].msg))
            /\ UNCHANGED chatSessionsTable
       ELSE /\ chatSessionsTable' = [s \in DOMAIN chatSessionsTable |->
                              IF s = loc[p].session_id
                              THEN [chatSessionsTable[s] EXCEPT !.updated_at = JsNow]
                              ELSE chatSessionsTable[s]]
            /\ Finish(p, Outcome(op, "ok", loc[p].session_id, loc[p].msg))
    /\ UNCHANGED <<now, chatMessagesTable, nextMsgId, otherVars>>

createChatMessage_update(p, fail) ==
    /\ pc[p] = "cm_touch"
    /\ TouchSession(p, "createChatMessage", fail)

\* ---------------------------------------------------------- sendAiMessage
\* mockPuterAI.chat: the canned reply, as the sequence of its parts.
mockPuterAI(genZ, codeOnly, image, pdf) ==
    <<IF genZ THEN "genz" ELSE IF codeOnly THEN "code" ELSE "plain">>
    \o (IF image # None THEN <<"image">> ELSE <<>>)
    \o (IF pdf # None THEN <<"pdf">> ELSE <<>>)
    \o <<"tail">>

userContent(content, image, pdf) ==
    IF image # None THEN content
    ELSE IF pdf # None THEN <<"PDF Content: ", pdf, "User Question: ">> \o content
    ELSE content

contentType(image, pdf) ==
    IF image # None THEN "image" ELSE IF pdf # None THEN "pdf" ELSE "text"

userMetadata(image, pdf) ==
    IF image # None THEN "hasImage" ELSE IF pdf # None THEN "hasPdf" ELSE None

sendAiMessage_select(p, sid, content, image, pdf, genZ, codeOnly, fail) ==
    /\ pc[p] = "idle"
    /\ IF fail
       THEN Finish(p, Outcome("sendAiMessage", "StoreFailure", sid, 0))
       ELSE IF sid \notin DOMAIN chatSessionsTable
       THEN Finish(p, Outcome("sendAiMessage", "SessionNotFound", sid, 0))
       ELSE /\ pc' = [pc EXCEPT ![p] = "ai_insert_user"]
            /\ loc' = [loc EXCEPT ![p] =
                         [NoLoc EXCEPT !.session_id = sid, !.role = "user",
                                       !.content = userContent(content, image, pdf),
                                       !.content_type = contentType(image, pdf),
                                       !.metadata = userMetadata(image, pdf),
                                       !.ai = mockPuterAI(genZ, codeOnly, image, pdf)]]
            /\ UNCHANGED res
    /\ UNCHANGED <<now, chatSessionsTable, chatMessagesTable, nextMsgId, otherVars>>

sendAiMessage_insertUser(p, fail) ==
    /\ pc[p] = "ai_insert_user"
    /\ InsertMessage(p, "sendAiMessage", "ai_reply", fail)

\* The reply of the chat service arrives; the assistant row is prepared.
sendAiMessage_chat(p) ==
    /\ pc[p] = "ai_reply"
    /\ pc' = [pc EXCEPT ![p] = "ai_insert_assistant"]
    /\ loc' = [loc EXCEPT ![p] =
                 [@ EXCEPT !.role = "assistant", !.content = loc[p].ai,
                           !.content_type = "text", !.metadata = None,
                           !.ai = <<>>]]
    /\ UNCHANGED <<now, chatSessionsTable, chatMessagesTable, nextMsgId, res, otherVars>>

sendAiMessage_insertAssistant(p, fail) ==
    /\ pc[p] = "ai_insert_assistant"
    /\ InsertMessage(p, "sendAiMessage", "ai_touch", fail)

sendAiMessage_update(p, fail) ==
    /\ pc[p] = "ai_touch"
    /\ TouchSession(p, "sendAiMessage", fail)

\* -------------------------------------------------------- getChatMessages
\* getChatMessagesInputSchema: limit is int().positive().optional(),
\* offset is int().nonnegative().optional().
getChatMessagesInputSchema(limit, offset) ==
    /\ limit = Absent \/ limit[1] > 0
    /\ offset = Absent \/ offset[1] >= 0

\* input.limit ?? 1000 and input.offset ?? 0: only an absent value is replaced.
DefaultLimit == 1000

\* Mutant: an absent limit means no limit (more rows than any session holds).
EffectiveLimit_unlimited(limit) == IF limit = Absent THEN 1000000 ELSE limit[1]

EffectiveLimit(limit) == IF limit = Absent THEN DefaultLimit ELSE limit[1]
EffectiveOffset(offset) == IF offset = Absent THEN 0 ELSE offset[1]

Min(a, b) == IF a <= b THEN a ELSE b

\* where session_id = sid
RowsOf(sid) == {m \in chatMessagesTable : m.session_id = sid}

\* order by created_at asc: the orders the store may return. Rows with equal
\* created_at have no specified relative order.
SortedOrders(rows) ==
    {f \in [1..Cardinality(rows) -> rows] :
        /\ \A i, j \in 1..Cardinality(rows) : i # j => f[i] # f[j]
        /\ \A i, j \in 1..Cardinality(rows) :
              i < j => f[i].created_at <= f[j].created_at}

\* Mutant: the query built without .offset(offset).
LimitOnly(ord, l, o) == SubSeq(ord, 1, Min(l, Len(ord)))

\* limit l offset o
LimitOffset(ord, l, o) == SubSeq(ord, o + 1, Min(o + l, Len(ord)))

\* The handler: one select statement.
getChatMessages(sid, limit, offset) ==
    \E ord \in SortedOrders(RowsOf(sid)) :
        listed' = [session_id |-> sid, limit |-> limit, offset |-> offset,
                   status |-> "ok",
                   rows |-> LimitOffset(ord, EffectiveLimit(limit),
                                        EffectiveOffset(offset))]

\* The getChatMessages procedure of the router: the input schema, then the
\* handler.
appRouter_getChatMessages(p, sid, limit, offset) ==
    /\ pc[p] = "idle"
    /\ IF getChatMessagesInputSchema(limit, offset)
       THEN getChatMessages(sid, limit, offset)
       ELSE listed' = [session_id |-> sid, limit |-> limit, offset |-> offset,
                       status |-> "ValidationError", rows |-> <<>>]
    /\ pc' = [pc EXCEPT ![p] = "get_return"]
    /\ UNCHANGED <<now, chatSessionsTable, chatMessagesTable, nextMsgId, loc, res,
                   videoVars, extraVars>>

\* The response has been delivered to the caller.
GetReturn(p) ==
    /\ pc[p] = "get_return"
    /\ pc' = [pc EXCEPT ![p] = "idle"]
    /\ listed' = NoList
    /\ UNCHANGED <<now, chatSessionsTable, chatMessagesTable, nextMsgId, loc, res,
                   videoVars, extraVars>>

\* The long session: a session that holds so many messages that the default
\* limit matters. Its rows are kept as the sequence of their ids in the order
\* of created_at, which is the order the query sorts them into.
LongSession == "long"

\* One more message is appended to the long session.
archive_append ==
    /\ listed = NoList
    /\ Len(archive) < MaxArchive
    /\ archive' = Append(archive, Len(archive) + 1)
    /\ UNCHANGED <<now, chatVars, videoVars, listed, activityVars, viewVars>>

\* getChatMessages({ session_id, offset }) on the long session: limit is
\* omitted.
getChatMessages_long(offset) ==
    /\ listed = NoList
    /\ IF getChatMessagesInputSchema(Absent, offset)
       THEN listed' = [session_id |-> LongSession, limit |-> Absent,
                       offset |-> offset, status |-> "ok",
                       rows |-> LimitOffset(archive, EffectiveLimit(Absent),
                                            EffectiveOffset(offset))]
       ELSE listed' = [session_id |-> LongSession, limit |-> Absent,
                       offset |-> offset, status |-> "ValidationError",
                       rows |-> <<>>]
    /\ UNCHANGED <<now, chatVars, videoVars, activityVars, viewVars, archive>>

\* The response has been delivered to the caller.
getChatMessages_long_return ==
    /\ listed # NoList
    /\ listed' = NoList
    /\ UNCHANGED <<now, chatVars, videoVars, activityVars, viewVars, archive>>

\* ---------------------------------------------------------- generateVideo
\* The handler builds the record it returns and issues no statement:
\* generated_videos is left as it is. initial_image_url || null.
generateVideo(prompt, image) ==
    /\ Len(generated) < MaxVideos
    /\ generated' = Append(generated,
          [id |-> DateNow, prompt |-> prompt, initial_image_url |-> image,
           video_url |-> None, status |-> "pending",
           progress_message |-> "Video generation queued",
           created_at |-> JsNow, completed_at |-> None])
    /\ UNCHANGED <<now, chatVars, generatedVideosTable, vres, listed, extraVars>>

\* The outcome of an update request: its input travels with it.
UpdateOutcome(op, status, id, input) ==
    [op |-> op, status |-> status, session_id |-> None, msg |-> 0,
     id |-> id, input |-> input]

\* update ... set <data> where id = ...: the columns named by data take its
\* values, the other columns of the row keep theirs.
SetColumns(row, data) ==
    [f \in DOMAIN row |-> IF f \in DOMAIN data THEN data[f] ELSE row[f]]

\* ------------------------------------------------------ updateChatSession
\* updateChatSessionInputSchema: every field but id is optional; title and
\* target_language are nullable.
UpdateChatSessionInputs ==
    [title : {Absent, <<None>>, <<"t1">>},
     gen_z_mode : {Absent, <<TRUE>>},
     copy_code_only_mode : {Absent},
     target_language : {Absent}]

\* Mutant: updateData built without updated_at.
updateChatSession_noTimestamp(input) ==
    [f \in {g \in DOMAIN input : input[g] # Absent} |-> input[f][1]]

\* updateData: updated_at always, and each field that is !== undefined.
updateChatSession_updateData(input) ==
    [f \in {"updated_at"} \cup {g \in DOMAIN input : input[g] # Absent} |->
        IF f = "updated_at" THEN JsNow ELSE input[f][1]]

\* update chat_sessions set ... where id = input.id returning; no row
\* returned is the not found error.
updateChatSession(p, id, input) ==
    /\ pc[p] = "idle"
    /\ IF id \notin DOMAIN chatSessionsTable
       THEN /\ Finish(p, UpdateOutcome("updateChatSession", "NotFound", id, input))
            /\ UNCHANGED chatSessionsTable
       ELSE /\ chatSessionsTable' =
                  [chatSessionsTable EXCEPT ![id] =
                      SetColumns(@, updateChatSession_updateData(input))]
            /\ Finish(p, UpdateOutcome("updateChatSession", "ok", id, input))
    /\ UNCHANGED <<now, chatMessagesTable, nextMsgId, otherVars>>

\* ------------------------------------------------------- generated_videos
VideoIds == {1, 2}

\* No handler inserts into generated_videos (generateVideo issues no
\* statement): its rows come from an insert outside the handlers, the one the
\* tests use. The id is the next value of the serial, status defaults to
\* pending, created_at to now().
createTestVideo(prompt, image) ==
    /\ Cardinality(DOMAIN generatedVideosTable) + 1 \in VideoIds
    /\ generatedVideosTable' =
          [v \in DOMAIN generatedVideosTable
                   \cup {Cardinality(DOMAIN generatedVideosTable) + 1} |->
              IF v \in DOMAIN generatedVideosTable
              THEN generatedVideosTable[v]
              ELSE [prompt |-> prompt, initial_image_url |-> image,
                    video_url |-> None, status |-> "pending",
                    progress_message |-> None, created_at |-> DbNow,
                    completed_at |-> None]]
    /\ UNCHANGED <<now, chatVars, generated, vres, listed, extraVars>>

\* ------------------------------------------------------ updateVideoStatus
\* updateGeneratedVideoInputSchema: every field but id is optional;
\* video_url, progress_message and completed_at are nullable.
UpdateGeneratedVideoInputs ==
    [video_url : {Absent, <<None>>, <<"x">>},
     status : {Absent, <<"processing">>, <<"completed">>},
     progress_message : {Absent, <<None>>, <<"m">>},
     completed_at : {Absent, <<None>>, <<"d1">>}]

\* Mutant: the fields tested for truthiness, so that null counts as absent.
updateVideoStatus_truthy(input) ==
    [f \in {g \in DOMAIN input : input[g] # Absent /\ input[g][1] # None} |->
        input[f][1]]

\* Mutant: every field of the input is put into updateData, a field that is
\* undefined as null.
updateVideoStatus_everyField(input) ==
    [f \in DOMAIN input |-> IF input[f] = Absent THEN None ELSE input[f][1]]

\* updateData: each field that is !== undefined.
updateVideoStatus_updateData(input) ==
    [f \in {g \in DOMAIN input : input[g] # Absent} |-> input[f][1]]

\* db.update(generatedVideosTable).set(updateData): an update needs at least
\* one column to set; set() throws 'No values to set' for an empty object,
\* before any statement is sent.
updateVideoStatus(p, id, input) ==
    /\ pc[p] = "idle"
    /\ IF DOMAIN updateVideoStatus_updateData(input) = {}
       THEN /\ Finish(p, UpdateOutcome("updateVideoStatus", "NoValuesToSet", id, input))
            /\ UNCHANGED generatedVideosTable
       ELSE IF id \notin DOMAIN generatedVideosTable
       THEN /\ Finish(p, UpdateOutcome("updateVideoStatus", "NotFound", id, input))
            /\ UNCHANGED generatedVideosTable
       ELSE /\ generatedVideosTable' =
                  [generatedVideosTable EXCEPT ![id] =
                      SetColumns(@, updateVideoStatus_updateData(input))]
            /\ Finish(p, UpdateOutcome("updateVideoStatus", "ok", id, input))
    /\ UNCHANGED <<now, chatSessionsTable, chatMessagesTable, nextMsgId,
                   generated, vres, listed, extraVars>>

\* --------------------------------------------------------- getVideoStatus
\* select from generated_videos where id = input.id; no row is an error.
getVideoStatus_result(id) ==
    IF id \in DOMAIN generatedVideosTable
    THEN [id |-> id, status |-> "ok", video |-> {generatedVideosTable[id]}]
    ELSE [id |-> id, status |-> "NotFound", video |-> {}]

getVideoStatus(id) ==
    /\ vres' = getVideoStatus_result(id)
    /\ UNCHANGED <<now, chatVars, generatedVideosTable, generated, listed, extraVars>>

\* -------------------------------------------------------- getChatSessions
\* select from chat_sessions order by updated_at desc: the orders the store
\* may return, each session identified by its id. Rows with equal updated_at
\* have no specified relative order.
getChatSessions_result ==
    {f \in [1..Cardinality(DOMAIN chatSessionsTable) -> DOMAIN chatSessionsTable] :
        /\ \A i, j \in DOMAIN f : i # j => f[i] # f[j]
        /\ \A i, j \in DOMAIN f :
              i < j => chatSessionsTable[f[i]].updated_at
                          >= chatSessionsTable[f[j]].updated_at}

\* ------------------------------------------------- the four result stores
\* Ids the serial of a result table hands out.
ActivityIds == {1}

\* insert into <table> ... returning: id from the serial (no row of these
\* tables is ever deleted), created_at from defaultNow().
ActivityRow(table, fields) ==
    [id |-> Cardinality(table) + 1, data |-> fields, created_at |-> DbNow]

\* simulateAIAnalysis: the template is chosen by the words of the prompt.
simulateAIAnalysis(imageUrl, prompt) ==
    IF prompt \in {"extract", "text"} THEN <<"extract text", imageUrl>>
    ELSE IF prompt \in {"summarize", "summary"} THEN <<"summarize">>
    ELSE IF prompt \in {"analyze", "analysis"} THEN <<"analyze", imageUrl>>
    ELSE <<"default", imageUrl, prompt>>

analyzeDocument(image_url, prompt) ==
    /\ Cardinality(documentAnalysisTable) + 1 \in ActivityIds
    /\ documentAnalysisTable' = documentAnalysisTable \cup
          {ActivityRow(documentAnalysisTable,
                       <<image_url, prompt, simulateAIAnalysis(image_url, prompt)>>)}
    /\ UNCHANGED <<now, chatVars, videoVars, listed, archive, generatedImagesTable,
                   quizTable, webSearchTable, activities, viewVars>>

generateImage(prompt) ==
    /\ Cardinality(generatedImagesTable) + 1 \in ActivityIds
    /\ generatedImagesTable' = generatedImagesTable \cup
          {ActivityRow(generatedImagesTable, <<prompt, <<"png", DateNow, prompt>> >>)}
    /\ UNCHANGED <<now, chatVars, videoVars, listed, archive, documentAnalysisTable,
                   quizTable, webSearchTable, activities, viewVars>>

generateQuiz(source_text) ==
    /\ Cardinality(quizTable) + 1 \in ActivityIds
    /\ quizTable' = quizTable \cup
          {ActivityRow(quizTable, <<source_text, <<"quiz", source_text>> >>)}
    /\ UNCHANGED <<now, chatVars, videoVars, listed, archive, documentAnalysisTable,
                   generatedImagesTable, webSearchTable, activities, viewVars>>

searchWeb(query) ==
    /\ Cardinality(webSearchTable) + 1 \in ActivityIds
    /\ webSearchTable' = webSearchTable \cup
          {ActivityRow(webSearchTable, <<query, <<"summary", query>>, "sources">>)}
    /\ UNCHANGED <<now, chatVars, videoVars, listed, archive, documentAnalysisTable,
                   generatedImagesTable, quizTable, activities, viewVars>>

\* The inserts that fill the five result tables.
Producers ==
    \/ analyzeDocument("url", "extract")
    \/ generateImage("sunset")
    \/ createTestVideo("sunset", "url")
    \/ generateQuiz("cat")
    \/ searchWeb("cat")

\* ---------------------------------------------------- getRecentActivities
\* z.object({ limit: z.number().int().positive().optional() })
ActivityLimits == {Absent} \cup {<<n>> : n \in 1..MaxLimit}

\* limit: number = 10
RecentDefaultLimit == 10

\* A timestamp column read into a Date: whole milliseconds.
ToDate(t) == (t \div TicksPerMs) * TicksPerMs

\* The rows of a table as activities: { type, data }, data identified by id.
Tagged(type, rows) ==
    {[type |-> type, id |-> r.id, created_at |-> r.created_at] : r \in rows}

VideoRows ==
    {[id |-> v, created_at |-> generatedVideosTable[v].created_at] :
        v \in DOMAIN generatedVideosTable}

\* select ... order by created_at desc limit l: the results the store may
\* return (rows with equal created_at in either order), created_at as Dates.
SelectNewest(rows, l) ==
    {[i \in 1..Min(l, Cardinality(rows)) |->
         [f[i] EXCEPT !.created_at = ToDate(@)]] :
        f \in {g \in [1..Cardinality(rows) -> rows] :
                  /\ \A i, j \in DOMAIN g : i # j => g[i] # g[j]
                  /\ \A i, j \in DOMAIN g :
                        i < j => g[i].created_at >= g[j].created_at}}

\* allActivities.sort((a, b) => dateB - dateA): descending by getTime(), the
\* sort is stable, so equal times keep their order in allActivities.
sortedActivities(all) ==
    LET pos(i) == 1 + Cardinality({j \in DOMAIN all :
                        \/ all[j].created_at > all[i].created_at
                        \/ all[j].created_at = all[i].created_at /\ j < i})
    IN  [k \in DOMAIN all |-> all[CHOOSE i \in DOMAIN all : pos(i) = k]]

\* The handler: five selects, the merge, the sort, slice(0, limit).
getRecentActivities(limit) ==
    LET l == IF limit = Absent THEN RecentDefaultLimit ELSE limit[1] IN
    /\ \E documentAnalyses \in SelectNewest(Tagged("document_analysis", documentAnalysisTable), l),
          generatedImages \in SelectNewest(Tagged("generated_image", generatedImagesTable), l),
          generatedVideos \in SelectNewest(Tagged("generated_video", VideoRows), l),
          quizzes \in SelectNewest(Tagged("quiz", quizTable), l),
          webSearches \in SelectNewest(Tagged("web_search", webSearchTable), l) :
          LET allActivities == documentAnalyses \o generatedImages
                                 \o generatedVideos \o quizzes \o webSearches
          IN  activities' =
                 [limit |-> limit, status |-> "ok",
                  rows |-> SubSeq(sortedActivities(allActivities), 1,
                                  Min(l, Len(allActivities)))]
    /\ UNCHANGED <<now, chatVars, videoVars, listed, archive, documentAnalysisTable,
                   generatedImagesTable, quizTable, webSearchTable, viewVars>>

\* The caller has taken the result.
getRecentActivities_return ==
    /\ activities # NoActivities
    /\ activities' = NoActivities
    /\ UNCHANGED <<now, chatVars, videoVars, listed, archive, documentAnalysisTable,
                   generatedImagesTable, quizTable, webSearchTable, viewVars>>

\* ----------------------------------------------------- VideoGeneratorView
\* The server as the view sees it: a generateVideo request is answered with
\* a record (its id is the generation's) or an error, a getVideoStatus
\* request with one of the statuses or an error.
VideoStatuses == {"processing", "completed", "failed"}
Terminal == {"completed", "failed"}

Request(op, id) == [dir |-> "request", op |-> op, id |-> id, status |-> None]
Response(op, id, st) == [dir |-> "response", op |-> op, id |-> id, status |-> st]

\* window.clearInterval(handle); a handle of 0 stands for null.
clearInterval(handle) == {t \in intervals : t.handle # handle}

\* generateVideo of the view up to `await trpc.generateVideo.mutate(input)`.
\* The button is disabled while isGenerating.
view_generateVideo ==
    /\ mounted
    /\ ~isGenerating
    /\ started < MaxGens
    /\ started' = started + 1
    /\ isGenerating' = TRUE
    /\ inflight' = inflight \cup {Request("generateVideo", started + 1)}
    /\ UNCHANGED <<mounted, view_status, pollIntervalRef, intervals, cancelled,
                   observed>>

\* The server answers a request of the view.
server_reply ==
    \E r \in inflight :
        /\ r.dir = "request"
        /\ \E st \in (IF r.op = "generateVideo" THEN {"pending", "error"}
                      ELSE VideoStatuses \cup {"error"}) :
              inflight' = (inflight \ {r}) \cup {Response(r.op, r.id, st)}
        /\ UNCHANGED <<mounted, isGenerating, view_status, pollIntervalRef,
                       intervals, started, cancelled, observed>>

\* generateVideo of the view after the await: the result starts the poll
\* timer and stores its handle; an error ends the generation.
view_generateVideo_resume ==
    \E r \in inflight :
        /\ r.dir = "response"
        /\ r.op = "generateVideo"
        /\ inflight' = inflight \ {r}
        /\ IF r.status = "error"
           THEN /\ isGenerating' = FALSE
                /\ UNCHANGED <<view_status, pollIntervalRef, intervals>>
           ELSE /\ view_status' = r.status
                /\ intervals' = intervals \cup {[handle |-> r.id, id |-> r.id]}
                /\ pollIntervalRef' = r.id
                /\ UNCHANGED isGenerating
        /\ UNCHANGED <<mounted, started, cancelled, observed>>

\* The interval timer fires: pollVideoStatus(id) up to its await.
pollVideoStatus(t) ==
    /\ t \in intervals
    /\ inflight' = inflight \cup {Request("getVideoStatus", t.id)}
    /\ UNCHANGED <<mounted, isGenerating, view_status, pollIntervalRef, intervals,
                   started, cancelled, observed>>

\* pollVideoStatus after the await: a terminal status clears the timer whose
\* handle is in pollIntervalRef; an error is logged and nothing changes.
pollVideoStatus_resume ==
    \E r \in inflight :
        /\ r.dir = "response"
        /\ r.op = "getVideoStatus"
        /\ inflight' = inflight \ {r}
        /\ IF r.status = "error"
           THEN UNCHANGED <<isGenerating, view_status, pollIntervalRef, intervals>>
           ELSE /\ view_status' = r.status
                /\ IF r.status \in Terminal
                   THEN /\ isGenerating' = FALSE
                        /\ intervals' = clearInterval(pollIntervalRef)
                        /\ pollIntervalRef' = 0
                   ELSE UNCHANGED <<isGenerating, pollIntervalRef, intervals>>
        /\ observed' = IF r.status \in Terminal THEN observed \cup {r.id} ELSE observed
        /\ UNCHANGED <<mounted, started, cancelled>>

\* The cancel button, shown while isGenerating.
resetGeneration ==
    /\ mounted
    /\ isGenerating
    /\ intervals' = clearInterval(pollIntervalRef)
    /\ pollIntervalRef' = 0
    /\ isGenerating' = FALSE
    /\ view_status' = "pending"
    /\ cancelled' = cancelled \cup {started}
    /\ UNCHANGED <<mounted, inflight, started, observed>>

\* The effect cleanup at unmount: the timer in pollIntervalRef is cleared,
\* the ref keeps its value.
view_unmount ==
    /\ mounted
    /\ mounted' = FALSE
    /\ intervals' = clearInterval(pollIntervalRef)
    /\ UNCHANGED <<isGenerating, view_status, pollIntervalRef, inflight, started,
                   cancelled, observed>>

\* --------------------------------------------------------------- ChatView
\* The calls of the view are modelled when they have completed: the request,
\* the handler and the response are one step.

\* trpc.getChatMessages.query({ session_id }): the ids of the rows returned.
loadMessages(sessionId) ==
    {[i \in DOMAIN page |-> page[i].id] :
        page \in {LimitOffset(ord, EffectiveLimit(Absent), EffectiveOffset(Absent)) :
                    ord \in SortedOrders(RowsOf(sessionId))}}

\* trpc.createChatMessage.mutate(input) that succeeds: the row is inserted
\* and the session touched.
chat_createChatMessage(sessionId, role, content) ==
    /\ ForeignKeyOk(sessionId)
    /\ chatMessagesTable' = chatMessagesTable \cup
          {MessageRow(nextMsgId, sessionId, role, content, "text", None)}
    /\ nextMsgId' = nextMsgId + 1
    /\ chatSessionsTable' = [chatSessionsTable EXCEPT ![sessionId].updated_at = JsNow]

\* createNewSession: the session is created and becomes the current one;
\* the effect on currentSessionId loads its messages.
chat_createNewSession ==
    /\ \E id \in SessionIds \ DOMAIN chatSessionsTable :
          /\ chatSessionsTable' = [s \in DOMAIN chatSessionsTable \cup {id} |->
                                    IF s = id THEN SessionRow("New Chat", FALSE, FALSE, "english")
                                    ELSE chatSessionsTable[s]]
          /\ currentSessionId' = id
          /\ messages' = <<>>
    /\ UNCHANGED <<now, chatMessagesTable, nextMsgId, pc, loc, res, videoVars,
                   listed, archive, activityVars, clientVars, pendingReplies, sent>>

\* The session selector: setCurrentSessionId, then the effect runs
\* loadMessages(currentSessionId).
chat_selectSession(sessionId) ==
    /\ sessionId \in DOMAIN chatSessionsTable
    /\ sessionId # currentSessionId
    /\ currentSessionId' = sessionId
    /\ messages' \in loadMessages(sessionId)
    /\ UNCHANGED <<now, chatVars, videoVars, listed, archive, activityVars, clientVars,
                   pendingReplies, sent>>

\* sendMessage (Enter in the textarea, not disabled by isLoading): the user
\* message is created, the list becomes [...messages, userMessage] and the
\* callback that will create the assistant reply is scheduled with this
\* list and this session id.
chat_sendMessage ==
    /\ currentSessionId # None
    /\ sent < MaxSends
    /\ sent' = sent + 1
    /\ chat_createChatMessage(currentSessionId, "user", <<"hello">>)
    /\ LET updatedMessages == Append(messages, nextMsgId) IN
          /\ messages' = updatedMessages
          /\ pendingReplies' = pendingReplies \cup
                {[session_id |-> currentSessionId, updatedMessages |-> updatedMessages]}
    /\ UNCHANGED <<now, pc, loc, res, videoVars, listed, archive, activityVars, clientVars,
                   currentSessionId>>

\* The setTimeout callback: the assistant message is created in the session
\* captured at the send and the list becomes [...updatedMessages, aiMessage].
chat_reply(r) ==
    /\ r \in pendingReplies
    /\ pendingReplies' = pendingReplies \ {r}
    /\ chat_createChatMessage(r.session_id, "assistant", <<"reply">>)
    /\ messages' = Append(r.updatedMessages, nextMsgId)
    /\ UNCHANGED <<now, pc, loc, res, videoVars, listed, archive, activityVars, clientVars,
                   currentSessionId, sent>>

\* ------------------------------------------------------------------ specs
\* The mutating chat handlers, run by the request slots in P; sendAiMessage
\* draws its imageFileBase64 from `images`.
Handlers(P, images) ==
    \/ \E p \in P, id \in SessionIds \cup {None}, t \in InputTitles :
          createChatSession(p, id, t)
    \/ \E p \in P, id \in SessionIds : deleteChatSession(p, id)
    \/ \E p \in P, f \in BOOLEAN : clearChatHistory_messages(p, f)
    \/ \E p \in P, f \in BOOLEAN : clearChatHistory_sessions(p, f)
    \/ \E p \in P, sid \in SessionIds, r \in InputRoles, c \in InputContents,
          ct \in InputContentTypes, f \in BOOLEAN :
          createChatMessage_select(p, sid, r, c, ct, None, f)
    \/ \E p \in P, f \in BOOLEAN : createChatMessage_insert(p, f)
    \/ \E p \in P, f \in BOOLEAN : createChatMessage_update(p, f)
    \/ \E p \in P, sid \in SessionIds, c \in InputContents, i \in images,
          d \in InputPdfs, f \in BOOLEAN :
          sendAiMessage_select(p, sid, c, i, d, FALSE, FALSE, f)
    \/ \E p \in P, f \in BOOLEAN : sendAiMessage_insertUser(p, f)
    \/ \E p \in P : sendAiMessage_chat(p)
    \/ \E p \in P, f \in BOOLEAN : sendAiMessage_insertAssistant(p, f)
    \/ \E p \in P, f \in BOOLEAN : sendAiMessage_update(p, f)
    \/ \E p \in P : Return(p)

\* One request at a time, with the clock running and the listing query.
Next ==
    \/ Tick
    \/ Handlers({1}, {None})
    \/ \E sid \in SessionIds, l \in Limits, o \in Offsets :
          appRouter_getChatMessages(1, sid, l, o)
    \/ GetReturn(1)

Spec == Init /\ [][Next]_vars

\* Concurrent requests: the statements of the handlers interleave. No
\* statement reads a timestamp, so the race is explored within one clock tick.
RaceNext == Handlers(Procs, InputImages)

SpecRace == Init /\ [][RaceNext]_vars

\* The video handlers.
VideoNext ==
    \/ Tick
    \/ \E q \in InputPrompts, i \in InputImageUrls : generateVideo(q, i)
    \/ \E id \in 0..MaxTime : getVideoStatus(id)

SpecVideo == Init /\ [][VideoNext]_vars

\* The long session grows and is listed without a limit.
ArchiveNext ==
    \/ archive_append
    \/ \E o \in Offsets : getChatMessages_long(o)
    \/ getChatMessages_long_return

SpecArchive == Init /\ [][ArchiveNext]_vars

\* The result stores fill while the clock runs, and the recent activities
\* are read.
ActivityNext ==
    \/ activities = NoActivities /\ Tick
    \/ activities = NoActivities /\ Producers
    \/ activities = NoActivities /\ \E l \in ActivityLimits : getRecentActivities(l)
    \/ getRecentActivities_return

SpecActivity == Init /\ [][ActivityNext]_vars

\* The video view and the server it talks to.
ClientNext ==
    /\ \/ view_generateVideo
       \/ server_reply
       \/ view_generateVideo_resume
       \/ \E t \in intervals : pollVideoStatus(t)
       \/ pollVideoStatus_resume
       \/ resetGeneration
       \/ view_unmount
    /\ UNCHANGED <<now, chatVars, videoVars, listed, archive, activityVars, chatViewVars>>

SpecClient == Init /\ [][ClientNext]_vars

\* The view when the user lets every generation run: no cancel, no unmount.
PollNext ==
    /\ \/ view_generateVideo
       \/ server_reply
       \/ view_generateVideo_resume
       \/ \E t \in intervals : pollVideoStatus(t)
       \/ pollVideoStatus_resume
    /\ UNCHANGED <<now, chatVars, videoVars, listed, archive, activityVars, chatViewVars>>

SpecPoll == Init /\ [][PollNext]_vars

\* The chat view: sessions created and selected, messages sent, replies
\* arriving, while the clock runs.
ChatViewNext ==
    \/ Tick
    \/ chat_createNewSession
    \/ \E sid \in SessionIds : chat_selectSession(sid)
    \/ chat_sendMessage
    \/ \E r \in pendingReplies : chat_reply(r)

SpecChatView == Init /\ [][ChatViewNext]_vars

\* The server answers a getVideoStatus request for video g with a terminal
\* status.
server_reply_terminal(g) ==
    /\ server_reply
    /\ \E st \in Terminal :
          Response("getVideoStatus", g, st) \in inflight' \ inflight

\* A terminal response for video g is delivered to the pollVideoStatus call
\* awaiting it.
pollVideoStatus_resume_terminal(g) ==
    /\ pollVideoStatus_resume
    /\ \E st \in Terminal :
          Response("getVideoStatus", g, st) \in inflight \ inflight'

\* Fair scheduling: an interval timer that stays active fires, a request is
\* answered, a response is delivered to the code awaiting it; and the video,
\* terminal on the server from some time on, is reported so to a poll that
\* keeps asking, whatever calls fail in between.
SpecPollFair ==
    /\ SpecPoll
    /\ \A g \in 1..MaxGens :
          /\ WF_vars(PollNext /\ pollVideoStatus([handle |-> g, id |-> g]))
          /\ SF_vars(PollNext /\ server_reply_terminal(g))
          /\ WF_vars(PollNext /\ pollVideoStatus_resume_terminal(g))
    /\ WF_vars(PollNext /\ server_reply)
    /\ WF_vars(PollNext /\ view_generateVideo_resume)
    /\ WF_vars(PollNext /\ pollVideoStatus_resume)

\* Session updates, one request at a time, with the clock running.
SessionNext ==
    \/ Tick
    \/ \E id \in SessionIds : createChatSession(1, id, None)
    \/ \E sid \in SessionIds :
          createChatMessage_select(1, sid, "user", <<"hello">>, "text", None, FALSE)
    \/ createChatMessage_insert(1, FALSE)
    \/ createChatMessage_update(1, FALSE)
    \/ \E id \in SessionIds, in \in UpdateChatSessionInputs :
          updateChatSession(1, id, in)
    \/ Return(1)

\* The history and the result stores side by side: sessions and messages are
\* created and cleared by concurrent requests while the result tables fill.
ClearNext ==
    \/ \E p \in Procs, id \in SessionIds : createChatSession(p, id, None)
    \/ \E p \in Procs, sid \in SessionIds, f \in BOOLEAN :
          createChatMessage_select(p, sid, "user", <<"hello">>, "text", None, f)
    \/ \E p \in Procs, f \in BOOLEAN : createChatMessage_insert(p, f)
    \/ \E p \in Procs, f \in BOOLEAN : createChatMessage_update(p, f)
    \/ \E p \in Procs, f \in BOOLEAN : clearChatHistory_messages(p, f)
    \/ \E p \in Procs, f \in BOOLEAN : clearChatHistory_sessions(p, f)
    \/ Producers
    \/ \E p \in Procs : Return(p)

SpecClear == Init /\ [][ClearNext]_vars

SpecSession == Init /\ [][SessionNext]_vars

\* The video store: rows inserted, updated and read, one request at a time.
VideoStoreNext ==
    \/ createTestVideo("sunset", "url")
    \/ \E id \in VideoIds, in \in UpdateGeneratedVideoInputs :
          updateVideoStatus(1, id, in)
    \/ Return(1)

SpecVideoStore == Init /\ [][VideoStoreNext]_vars

\* Concurrent updates of the video store: each handler is one update
\* statement, and the statements of two requests run in either order.
VideoRaceNext ==
    \/ createTestVideo("sunset", "url")
    \/ \E p \in Procs, id \in VideoIds,
          in \in {i \in UpdateGeneratedVideoInputs :
                     /\ i.video_url \in {Absent, <<"x">>}
                     /\ i.status \in {Absent, <<"completed">>}
                     /\ i.progress_message \in {Absent, <<"m">>}
                     /\ i.completed_at = Absent} :
          updateVideoStatus(p, id, in)
    \/ \E p \in Procs : Return(p)

SpecVideoRace == Init /\ [][VideoRaceNext]_vars

\* The three operations that address a record by id, on a store that holds
\* sessions and videos, one request at a time.
ByIdNext ==
    \/ \E id \in SessionIds : createChatSession(1, id, None)
    \/ \E id \in SessionIds,
          in \in {i \in UpdateChatSessionInputs :
                     i.gen_z_mode = Absent} :
          updateChatSession(1, id, in)
    \/ createTestVideo("sunset", "url")
    \/ \E id \in VideoIds,
          in \in {i \in UpdateGeneratedVideoInputs :
                     i.progress_message = Absent /\ i.completed_at = Absent} :
          updateVideoStatus(1, id, in)
    \/ \E id \in VideoIds : getVideoStatus(id)
    \/ Return(1)

SpecById == Init /\ [][ByIdNext]_vars

\* Every kind of operation of the router next to stored messages, one
\* request at a time: sessions created, updated and deleted, messages
\* appended and listed, the history cleared, and the video and result store
\* operations.
FrameNext ==
    \/ \E id \in SessionIds : createChatSession(1, id, None)
    \/ \E id \in SessionIds : deleteChatSession(1, id)
    \/ clearChatHistory_messages(1, FALSE)
    \/ clearChatHistory_sessions(1, FALSE)
    \/ \E sid \in SessionIds :
          createChatMessage_select(1, sid, "user", <<"hello">>, "text", None, FALSE)
    \/ createChatMessage_insert(1, FALSE)
    \/ createChatMessage_update(1, FALSE)
    \/ \E id \in SessionIds,
          in \in {i \in UpdateChatSessionInputs : i.gen_z_mode = Absent} :
          updateChatSession(1, id, in)
    \/ Return(1)
    \/ \E sid \in SessionIds : appRouter_getChatMessages(1, sid, Absent, Absent)
    \/ GetReturn(1)
    \/ activities = NoActivities /\ Producers
    \/ \E id \in VideoIds : updateVideoStatus(1, id,
          [video_url |-> Absent, status |-> <<"completed">>,
           progress_message |-> Absent, completed_at |-> Absent])
    \/ activities = NoActivities /\ getRecentActivities(Absent)
    \/ getRecentActivities_return

SpecFrame == Init /\ [][FrameNext]_vars
\* ================================================================= claims

\* C1: no orphan message. In every reachable state, under any interleaving
\* of the statements of createChatSession, createChatMessage, sendAiMessage,
\* deleteChatSession and clearChatHistory, every persisted message has the
\* session_id of a persisted session.
C1_NoOrphanMessage ==
    \A m \in chatMessagesTable : m.session_id \in DOMAIN chatSessionsTable

\* A message inserted between the two statements of a clearChatHistory.
C1_Witness ==
    \E p \in Procs : pc[p] = "clear_sessions" /\ chatMessagesTable # {}

\* C2: deleteChatSession(S) on an existing session removes S and every
\* message of S, and leaves every other session and every message of every
\* other session as it was.
C2_DeleteRemovesOnlyItsSession ==
    [][\A p \in Procs :
          (/\ pc[p] = "idle"
           /\ pc'[p] = "return"
           /\ res'[p].op = "deleteChatSession"
           /\ res'[p].session_id \in DOMAIN chatSessionsTable)
          => LET id == res'[p].session_id IN
             /\ DOMAIN chatSessionsTable' = DOMAIN chatSessionsTable \ {id}
             /\ \A s \in DOMAIN chatSessionsTable' : chatSessionsTable'[s] = chatSessionsTable[s]
             /\ chatMessagesTable' = {m \in chatMessagesTable : m.session_id # id}]_vars

\* A delete has just returned, its session and at least one message row are
\* gone, and a message of another session is still there.
C2_Witness ==
    /\ pc[1] = "return"
    /\ res[1].op = "deleteChatSession"
    /\ res[1].session_id \notin DOMAIN chatSessionsTable
    /\ chatMessagesTable # {}
    /\ Cardinality(chatMessagesTable) < nextMsgId - 1

\* C3: createChatMessage is one logical unit. When it succeeds exactly one
\* message row was inserted for a session that is there; when it fails at any
\* step, no message row written by the call remains persisted.
C3_AppendIsOneUnit ==
    \A p \in Procs :
        (pc[p] = "return" /\ res[p].op = "createChatMessage")
        => IF res[p].status = "ok"
           THEN /\ Cardinality({m \in chatMessagesTable : m.id = res[p].msg}) = 1
                /\ res[p].session_id \in DOMAIN chatSessionsTable
           ELSE \A m \in chatMessagesTable : m.id # res[p].msg

\* C4: a createChatMessage for a session id that has no session fails with
\* SessionNotFound (whenever its statements run at all) and leaves sessions
\* and messages unchanged.
C4_AppendToMissingSession ==
    [][\A p \in Procs :
          (/\ pc[p] # "return"
           /\ pc'[p] = "return"
           /\ res'[p].op = "createChatMessage"
           /\ res'[p].status # "StoreFailure"
           /\ res'[p].session_id \notin DOMAIN chatSessionsTable)
          => /\ res'[p].status = "SessionNotFound"
             /\ chatSessionsTable' = chatSessionsTable
             /\ chatMessagesTable' = chatMessagesTable]_vars

\* SessionNotFound is being returned while other sessions and messages exist.
C4_Witness ==
    /\ pc[1] = "return"
    /\ res[1].op = "createChatMessage"
    /\ res[1].status = "SessionNotFound"
    /\ res[1].session_id \notin DOMAIN chatSessionsTable
    /\ chatMessagesTable # {}

\* C5: createChatMessage never fails with the store's foreign key error,
\* whatever deleteChatSession or clearChatHistory interleaves with it.
C5_NeverForeignKeyError ==
    \A p \in Procs :
        (pc[p] = "return" /\ res[p].op = "createChatMessage")
        => res[p].status # "ForeignKeyViolation"

\* C6: a successful createChatMessage leaves the session's updated_at
\* strictly greater than it was immediately before.
C6_AppendAdvancesUpdatedAt ==
    [][\A p \in Procs :
          (/\ pc[p] = "cm_touch"
           /\ pc'[p] = "return"
           /\ res'[p].status = "ok"
           /\ loc[p].session_id \in DOMAIN chatSessionsTable)
          => chatSessionsTable'[loc[p].session_id].updated_at
                > chatSessionsTable[loc[p].session_id].updated_at]_vars

\* C7: getChatMessages returns the messages in non-decreasing created_at
\* order, and that order is the order in which they were appended.
C7_ListedInAppendOrder ==
    listed.status = "ok"
    => \A i, j \in 1..Len(listed.rows) :
          i < j => /\ listed.rows[i].created_at <= listed.rows[j].created_at
                   /\ listed.rows[i].id < listed.rows[j].id

\* C8: through the router, a request with limit 0 yields an empty collection
\* and no error, and so does a request whose offset is at least the number
\* of messages of the session.
C8_ZeroLimitAndLargeOffsetAreEmpty ==
    /\ (listed.status # "none" /\ listed.limit = <<0>>)
       => (listed.status = "ok" /\ listed.rows = <<>>)
    /\ (/\ listed.status # "none"
        /\ listed.limit # <<0>>
        /\ listed.offset # Absent
        /\ listed.offset[1] >= Cardinality({m \in chatMessagesTable :
                                   m.session_id = listed.session_id}))
       => (listed.status = "ok" /\ listed.rows = <<>>)

C10_GeneratedVideoIsPersisted ==
    /\ \A i \in 1..Len(generated) :
          /\ generated[i].id \in DOMAIN generatedVideosTable
          /\ generatedVideosTable[generated[i].id].status = "pending"
          /\ generatedVideosTable[generated[i].id].video_url = None
          /\ generatedVideosTable[generated[i].id].completed_at = None
    /\ \A i \in 1..Len(generated) :
          (vres.status # "none" /\ vres.id = generated[i].id) => vres.status = "ok"
    /\ Cardinality(DOMAIN generatedVideosTable) >= Len(generated)

\* C11: after updateVideoStatus(id, fields) on an existing video,
\* getVideoStatus(id) returns the supplied value for each supplied field (null
\* when null was supplied) and the prior value for each field not supplied;
\* prompt, initial_image_url, created_at and every other video row are
\* unchanged.
C11_UpdateStatusFrame ==
    [][\A p \in Procs, id \in VideoIds :
          (/\ pc[p] = "idle"
           /\ pc'[p] = "return"
           /\ res'[p].op = "updateVideoStatus"
           /\ res'[p].id = id
           /\ id \in DOMAIN generatedVideosTable)
          => LET in == res'[p].input
                 old == generatedVideosTable[id]
                 got == getVideoStatus_result(id)'
             IN  /\ got.status = "ok"
                 /\ \A video \in got.video :
                       /\ \A f \in DOMAIN in :
                             video[f] = IF in[f] # Absent THEN in[f][1] ELSE old[f]
                       /\ video.prompt = old.prompt
                       /\ video.initial_image_url = old.initial_image_url
                       /\ video.created_at = old.created_at
                 /\ DOMAIN generatedVideosTable' = DOMAIN generatedVideosTable
                 /\ \A v \in DOMAIN generatedVideosTable \ {id} :
                       generatedVideosTable'[v] = generatedVideosTable[v]]_vars

\* An update that supplied null for video_url and nothing for status has
\* returned: the url is null again, the status set earlier is still there,
\* and the other video is as it was inserted.
C11_Witness ==
    /\ pc[1] = "return"
    /\ res[1].op = "updateVideoStatus"
    /\ res[1].status = "ok"
    /\ res[1].id = 1
    /\ res[1].input.video_url = <<None>>
    /\ res[1].input.status = Absent
    /\ res[1].input.progress_message = <<"m">>
    /\ DOMAIN generatedVideosTable = {1, 2}
    /\ generatedVideosTable[1].video_url = None
    /\ generatedVideosTable[1].status = "completed"
    /\ generatedVideosTable[1].completed_at = "d1"
    /\ generatedVideosTable[2].status = "pending"

\* C12: an updateVideoStatus that supplies no optional field behaves like such
\* an updateChatSession: on an existing video id it succeeds, and status,
\* video_url, progress_message and completed_at of the video are unchanged.
C12_EmptyUpdateStatusSucceeds ==
    [][\A p \in Procs :
          (/\ pc[p] = "idle"
           /\ pc'[p] = "return"
           /\ res'[p].op = "updateVideoStatus"
           /\ \A f \in DOMAIN res'[p].input : res'[p].input[f] = Absent
           /\ res'[p].id \in DOMAIN generatedVideosTable)
          => /\ res'[p].status = "ok"
             /\ generatedVideosTable' = generatedVideosTable]_vars

\* C13: getVideoStatus, updateChatSession and updateVideoStatus called with an
\* id that does not exist fail with NotFound, and the failing call leaves
\* every session and video row unchanged and creates none.
C13_MissingIdIsNotFound ==
    [][/\ (vres' # vres /\ vres'.id \notin DOMAIN generatedVideosTable)
          => /\ vres'.status = "NotFound"
             /\ UNCHANGED <<chatSessionsTable, generatedVideosTable>>
       /\ \A p \in Procs :
             (/\ pc[p] = "idle"
              /\ pc'[p] = "return"
              /\ \/ /\ res'[p].op = "updateChatSession"
                    /\ res'[p].id \notin DOMAIN chatSessionsTable
                 \/ /\ res'[p].op = "updateVideoStatus"
                    /\ res'[p].id \notin DOMAIN generatedVideosTable)
             => /\ res'[p].status = "NotFound"
                /\ UNCHANGED <<chatSessionsTable, generatedVideosTable>>]_vars

C15_DuplicateIdIsRejected ==
    [][\A p \in Procs :
          (/\ pc[p] = "idle"
           /\ pc'[p] = "return"
           /\ res'[p].op = "createChatSession"
           /\ res'[p].session_id \in DOMAIN chatSessionsTable)
          => /\ res'[p].status = "DuplicateKey"
             /\ chatSessionsTable' = chatSessionsTable
             /\ chatMessagesTable' = chatMessagesTable
             /\ Cardinality(DOMAIN chatSessionsTable')
                   = Cardinality(DOMAIN chatSessionsTable)]_vars

\* A create for an id in use has been rejected, later than the session was
\* created; the session has a message.
C15_Witness ==
    /\ pc[1] = "return"
    /\ res[1].op = "createChatSession"
    /\ res[1].status = "DuplicateKey"
    /\ res[1].session_id \in DOMAIN chatSessionsTable
    /\ chatSessionsTable[res[1].session_id].created_at < now
    /\ \E m \in chatMessagesTable : m.session_id = res[1].session_id

\* C16: when clearChatHistory completes successfully, getChatSessions returns
\* an empty list and no message can be read back for any session; no
\* statement of clearChatHistory changes document analyses, generated
\* images, generated videos, quizzes or web searches.
C16_ClearEmptiesHistoryOnly ==
    [][\A p \in Procs :
          /\ (/\ pc[p] = "clear_sessions"
              /\ pc'[p] = "return"
              /\ res'[p].status = "ok")
             => /\ getChatSessions_result' = {<<>>}
                /\ \A sid \in SessionIds : RowsOf(sid)' = {}
                /\ chatMessagesTable' = {}
          /\ (/\ pc[p] \in {"idle", "clear_sessions"}
              /\ pc'[p] \in {"clear_sessions", "return"}
              /\ pc'[p] # pc[p]
              /\ pc'[p] = "return" => res'[p].op = "clearChatHistory")
             => UNCHANGED <<documentAnalysisTable, generatedImagesTable,
                            generatedVideosTable, quizTable, webSearchTable>>]_vars

\* A clear has completed while the append of another request is in mid-flight:
\* the message that request inserted is gone with the sessions, and every
\* result table still has a row.
C16_Witness ==
    /\ pc[1] = "return"
    /\ res[1].op = "clearChatHistory"
    /\ res[1].status = "ok"
    /\ pc[2] = "cm_touch"
    /\ chatSessionsTable = <<>>
    /\ chatMessagesTable = {}
    /\ documentAnalysisTable # {}
    /\ generatedImagesTable # {}
    /\ DOMAIN generatedVideosTable # {}
    /\ quizTable # {}
    /\ webSearchTable # {}

\* C17: clearChatHistory is all-or-nothing. No statement of it changes
\* sessions or messages unless it completes the whole clear: a failed call
\* leaves every session and message in place, and no state in which the
\* messages are deleted while their sessions exist is ever visible.
C17_ClearIsAllOrNothing ==
    [][\A p \in Procs :
          (/\ pc[p] \in {"idle", "clear_sessions"}
           /\ pc'[p] \in {"clear_sessions", "return"}
           /\ pc'[p] # pc[p]
           /\ pc'[p] = "return" => res'[p].op = "clearChatHistory")
          => \/ UNCHANGED <<chatSessionsTable, chatMessagesTable>>
             \/ /\ pc'[p] = "return"
                /\ res'[p].status = "ok"
                /\ chatSessionsTable' = <<>>
                /\ chatMessagesTable' = {}]_vars

\* C18: once the poll of the video view has received a getVideoStatus
\* response whose status is completed or failed, the interval timer polling
\* that video is cleared (so no further getVideoStatus call is issued for
\* it) and isGenerating is false.
C18_TerminalStatusStopsPoll ==
    [][\A r \in inflight :
          (/\ r.dir = "response"
           /\ r.op = "getVideoStatus"
           /\ r.status \in Terminal
           /\ inflight' = inflight \ {r})
          => /\ isGenerating' = FALSE
             /\ \A t \in intervals' : t.id # r.id]_vars

\* C19: after resetGeneration or unmount, whether the generateVideo request
\* was in flight or the poll was running, no poll timer remains active (and
\* so no getVideoStatus call is issued): an unmounted view has no active
\* interval timer, and no active timer polls a cancelled generation.
C19_NoTimerAfterCancelOrClose ==
    /\ ~mounted => intervals = {}
    /\ \A t \in intervals : t.id \notin cancelled

\* C20: getRecentActivities(limit) returns min(limit, total number of rows of
\* the five result tables) activities, in non-increasing order of the
\* created_at of their records, and no record left out of the result is
\* strictly newer than a returned one; without a limit, limit is 10.
C20_RecentAreTheNewest ==
    activities.status = "ok"
    => LET l == IF activities.limit = Absent THEN 10 ELSE activities.limit[1]
           all == Tagged("document_analysis", documentAnalysisTable)
                    \cup Tagged("generated_image", generatedImagesTable)
                    \cup Tagged("generated_video", VideoRows)
                    \cup Tagged("quiz", quizTable)
                    \cup Tagged("web_search", webSearchTable)
           rows == activities.rows
           Stored(a) == CHOOSE r \in all : r.type = a.type /\ r.id = a.id
           returned == {Stored(rows[i]) : i \in DOMAIN rows}
       IN  /\ \A i \in DOMAIN rows :
                 \E r \in all : r.type = rows[i].type /\ r.id = rows[i].id
           /\ Len(rows) = Min(l, Cardinality(all))
           /\ Cardinality(returned) = Len(rows)
           /\ \A i, j \in DOMAIN rows :
                 i < j => Stored(rows[i]).created_at >= Stored(rows[j]).created_at
           /\ \A o \in all \ returned, r \in returned :
                 o.created_at <= r.created_at

\* C21: getChatSessions returns every persisted session exactly once in
\* non-increasing updated_at order, and the empty list on an empty store;
\* right after a successful createChatMessage or updateChatSession on session
\* S (no session mutation after it), S is the first element of the list.
C21_TouchedSessionIsListedFirst ==
    [][/\ getChatSessions_result' # {}
       /\ \A f \in getChatSessions_result' :
             /\ {f[i] : i \in DOMAIN f} = DOMAIN chatSessionsTable'
             /\ Len(f) = Cardinality(DOMAIN chatSessionsTable')
             /\ \A i, j \in DOMAIN f :
                   i < j => chatSessionsTable'[f[i]].updated_at
                               >= chatSessionsTable'[f[j]].updated_at
       /\ chatSessionsTable' = <<>> => getChatSessions_result' = {<<>>}
       /\ \A p \in Procs :
             (/\ pc[p] \in {"idle", "cm_touch"}
              /\ pc'[p] = "return"
              /\ res'[p].status = "ok"
              /\ \/ res'[p].op = "createChatMessage"
                 \/ res'[p].op = "updateChatSession")
             => LET S == IF res'[p].op = "updateChatSession"
                         THEN res'[p].id ELSE res'[p].session_id
                IN  \A f \in getChatSessions_result' : f[1] = S]_vars

\* C22: every persisted session has updated_at >= created_at, in every
\* reachable state.
C22_UpdatedNotBeforeCreated ==
    \A s \in DOMAIN chatSessionsTable :
        chatSessionsTable[s].updated_at >= chatSessionsTable[s].created_at

\* C23: a stored message never changes, and it ceases to exist only in a
\* deleteChatSession of its own session or in a statement of
\* clearChatHistory: every other step of every operation (createChatMessage,
\* sendAiMessage, updateChatSession, the reads, the video and result store
\* operations) leaves every existing message as it is.
C23_MessagesAreImmutable ==
    [][\A m \in chatMessagesTable :
          /\ \A n \in chatMessagesTable' : n.id = m.id => n = m
          /\ \/ m \in chatMessagesTable'
             \/ \E p \in Procs :
                   /\ pc[p] = "idle"
                   /\ pc'[p] = "return"
                   /\ res'[p].op = "deleteChatSession"
                   /\ res'[p].session_id = m.session_id
             \/ \E p \in Procs :
                   /\ pc[p] \in {"idle", "clear_sessions"}
                   /\ pc'[p] # pc[p]
                   /\ \/ pc'[p] = "clear_sessions"
                      \/ (pc'[p] = "return" /\ res'[p].op = "clearChatHistory")]_vars

\* A deleteChatSession of one session has returned while a message of the
\* other session, a video row and result rows are stored.
C23_Witness ==
    /\ pc[1] = "return"
    /\ res[1].op = "deleteChatSession"
    /\ res[1].session_id \notin DOMAIN chatSessionsTable
    /\ \E m \in chatMessagesTable : m.session_id # res[1].session_id
    /\ nextMsgId > Cardinality(chatMessagesTable) + 1
    /\ DOMAIN generatedVideosTable # {}
    /\ quizTable # {}

\* C24: deleteChatSession of an id that has no session succeeds and leaves
\* every session and message unchanged; a deleteChatSession of an existing
\* session leaves its id without a session, so that deleting it again gives
\* the same store as deleting it once.
C24_DeleteIsIdempotent ==
    [][\A p \in Procs :
          (/\ pc[p] = "idle"
           /\ pc'[p] = "return"
           /\ res'[p].op = "deleteChatSession")
          => /\ res'[p].status = "ok"
             /\ res'[p].session_id \notin DOMAIN chatSessionsTable'
             /\ res'[p].session_id \notin DOMAIN chatSessionsTable
                => /\ chatSessionsTable' = chatSessionsTable
                   /\ chatMessagesTable' = chatMessagesTable]_vars

\* A delete of s2 has returned on a store that holds s1 with every message
\* ever appended and has no s2.
C24_Witness ==
    /\ pc[1] = "return"
    /\ res[1].op = "deleteChatSession"
    /\ res[1].status = "ok"
    /\ res[1].session_id = "s2"
    /\ DOMAIN chatSessionsTable = {"s1"}
    /\ chatMessagesTable # {}
    /\ Cardinality(chatMessagesTable) = nextMsgId - 1

\* C25: in the video view at most one poll interval timer is active at any
\* time, and an active timer's handle is the one in pollIntervalRef.
C25_OnePollTimer ==
    /\ Cardinality(intervals) <= 1
    /\ \A t \in intervals : t.handle = pollIntervalRef

\* C26: once the video view has observed a terminal status (isGenerating is
\* false again and the status shown is completed or failed), or once the
\* user has cancelled, no getVideoStatus response that arrives before the
\* next generation is started changes the status the view shows.
C26_LateResponseChangesNothing ==
    [][\A r \in inflight :
          (/\ r.dir = "response"
           /\ r.op = "getVideoStatus"
           /\ inflight' = inflight \ {r}
           /\ ~isGenerating
           /\ view_status \in Terminal \/ started \in cancelled)
          => view_status' = view_status]_vars

\* C27: under fair scheduling, once the poll timer of video g runs and the
\* server reports a terminal status for g to a poll that keeps asking, the
\* view eventually applies a terminal status of g, with the timer of g
\* cleared and isGenerating false; failed calls in between do not end the
\* polling.
C27_TerminalStatusIsObserved ==
    \A g \in 1..MaxGens :
        ([handle |-> g, id |-> g] \in intervals)
        ~> (/\ g \in observed
            /\ ~isGenerating
            /\ \A t \in intervals : t.id # g)

\* C28: in the chat view, once no simulated assistant reply is pending, the
\* message list contains every message the server holds for the current
\* session (all of them were created through the view), in the order in
\* which the server lists them.
C28_ListHasEveryMessage ==
    (pendingReplies = {} /\ currentSessionId # None)
    => /\ \A m \in RowsOf(currentSessionId) :
             \E i \in DOMAIN messages : messages[i] = m.id
       /\ \A i, j \in DOMAIN messages :
             \A m, n \in RowsOf(currentSessionId) :
                (i < j /\ messages[i] = m.id /\ messages[j] = n.id)
                => m.created_at <= n.created_at

\* C29: when two concurrent updateVideoStatus calls on the same video, which
\* both found it, that supply disjoint sets of fields have both completed, every field
\* supplied by either call holds that call's value, whichever statement ran
\* first.
C29_DisjointUpdatesBothTakeEffect ==
    \A p, q \in Procs :
        (/\ p # q
         /\ pc[p] = "return" /\ res[p].op = "updateVideoStatus"
         /\ pc[q] = "return" /\ res[q].op = "updateVideoStatus"
         /\ res[p].id = res[q].id
         /\ res[p].status # "NotFound" /\ res[q].status # "NotFound"
         /\ res[p].id \in DOMAIN generatedVideosTable
         /\ \A f \in DOMAIN res[p].input :
               res[p].input[f] = Absent \/ res[q].input[f] = Absent)
        => \A f \in DOMAIN res[p].input :
              /\ res[p].input[f] # Absent
                 => generatedVideosTable[res[p].id][f] = res[p].input[f][1]
              /\ res[q].input[f] # Absent
                 => generatedVideosTable[res[p].id][f] = res[q].input[f][1]

\* Two updates of video 1 have completed side by side, one that supplied only
\* the status and one that supplied only the url; the row has both values.
C29_Witness ==
    /\ pc[1] = "return" /\ res[1].op = "updateVideoStatus" /\ res[1].status = "ok"
    /\ pc[2] = "return" /\ res[2].op = "updateVideoStatus" /\ res[2].status = "ok"
    /\ res[1].id = 1 /\ res[2].id = 1
    /\ res[1].input.status = <<"completed">> /\ res[1].input.video_url = Absent
    /\ res[1].input.progress_message = Absent
    /\ res[2].input.video_url = <<"x">> /\ res[2].input.status = Absent
    /\ res[2].input.progress_message = Absent
    /\ generatedVideosTable[1].status = "completed"
    /\ generatedVideosTable[1].video_url = "x"
    /\ generatedVideosTable[1].progress_message = None

\* C30: when limit is omitted getChatMessages applies a limit of 1000: the
\* result has min(1000, max(0, n - offset)) messages, n the number of
\* messages of the session, and they are the oldest ones from offset on.
C30_DefaultLimitIsThousand ==
    (listed.status = "ok" /\ listed.session_id = LongSession /\ listed.limit = Absent)
    => LET n == Len(archive)
           o == IF listed.offset = Absent THEN 0 ELSE listed.offset[1]
           rest == IF n - o > 0 THEN n - o ELSE 0
       IN  /\ Len(listed.rows) = (IF rest < 1000 THEN rest ELSE 1000)
           /\ \A i \in 1..Len(listed.rows) : listed.rows[i] = archive[o + i]

\* A session of 1002 messages is listed from offset 1 without a limit: 1000
\* messages come back and the newest one is left out.
C30_Witness ==
    /\ listed.status = "ok"
    /\ listed.session_id = LongSession
    /\ listed.limit = Absent
    /\ listed.offset = <<1>>
    /\ Len(archive) = 1002
    /\ Len(listed.rows) = 1000
    /\ listed.rows[1000] = 1001
====
